---- MODULE Spec2Model ----
(***************************************************************************)
(* Model of kv, the Azure Key Vault command line tool: the edit           *)
(* workflow (pkg/cmd/edit: runEdit, createSecureTempFile, openEditor,      *)
(* secureDelete), the review session (internal/difftui: Model.Update,      *)
(* computeDiff, renderDiffLines, wrapLine), the browse session             *)
(* (internal/tui: Model.Update, wrapTextWithLineNumbers), the client       *)
(* (pkg/keyvault: ListSecretVersions) and the data they work on.           *)
(*                                                                         *)
(* A Go string is a sequence of one-character strings; "\n" is the         *)
(* newline character and " " the space.                                    *)
(***************************************************************************)
EXTENDS Integers, Sequences, FiniteSets, TLC

(* ------------------------------------------------------------------ *)
(* Bounds of the explored inputs.                                      *)
(* ------------------------------------------------------------------ *)

\* Most lines of a text compared in the diff engine's own specification.
MaxLines == 3

\* The contents a line of such a text can have: the empty line and the
\* one-character lines a, b and x.
LineChars == {"a", "b", "x"}
Lines == {<<>>} \cup {<<c>> : c \in LineChars}

\* Longest line handed to wrapLine in its own specification; the lines are
\* made of the letter a and the space, the widths run from below zero to
\* past the longest line.
MaxWrapLen == 5
WrapChars == {"a", " "}
WrapWidths == (-2)..(MaxWrapLen + 1)

\* Longest of the long lines handed to wrapLine: lines of letters a with up
\* to two spaces anywhere, longer than widths that exceed the look-back
\* window of 20, so that a space can lie before the window.
LongWrapLen == 23
LongWrapWidths == {21, 22}
LongWrapLines ==
  UNION {{[k \in 1..n |-> IF k \in {i, j} THEN " " ELSE "a"] : i, j \in 0..n} :
           n \in 22..LongWrapLen}

\* Most versions ListSecretVersions returns in the edit workflow.
MaxVersions == 1

\* The secret values of the edit workflow: what a version holds and what
\* the editor can leave in the scratch file.
Values ==
  { <<>>,
    <<"a", "\n">>,
    <<"a", " ", "b">>,
    <<"a", "b", "\n", "\n", "b">> }

\* Terminal sizes a resize event can report: widths around the one at which
\* the pane's wrap width (width/2 - 14) reaches zero, and a usual one.
TermWidths == {26, 28, 30, 80}
TermHeights == {6, 7, 8}

(* ------------------------------------------------------------------ *)
(* Strings.                                                            *)
(* ------------------------------------------------------------------ *)

NL == "\n"
SP == " "

\* The least index of s holding the character c, 0 when there is none.
IndexOf(s, c) ==
  IF \E k \in 1..Len(s) : s[k] = c
  THEN CHOOSE k \in 1..Len(s) : s[k] = c /\ \A j \in 1..(k - 1) : s[j] # c
  ELSE 0

\* strings.Split(s, "\n"): the pieces between newlines, at least one piece,
\* the last one empty when s ends in a newline (or is empty).
RECURSIVE Split(_)
Split(s) ==
  LET k == IndexOf(s, NL)
  IN  IF k = 0
      THEN <<s>>
      ELSE <<SubSeq(s, 1, k - 1)>> \o Split(SubSeq(s, k + 1, Len(s)))

\* strings.Join(ls, "\n"), used to enumerate input texts.
RECURSIVE Join(_)
Join(ls) ==
  IF Len(ls) = 0 THEN <<>>
  ELSE IF Len(ls) = 1 THEN ls[1]
  ELSE ls[1] \o <<NL>> \o Join(Tail(ls))

\* strings.TrimLeft(s, " ").
RECURSIVE TrimLeft(_)
TrimLeft(s) ==
  IF Len(s) > 0 /\ s[1] = SP THEN TrimLeft(Tail(s)) ELSE s

\* Every sequence over S of length lo..hi.
SeqsOf(S, lo, hi) == UNION {[1..n -> S] : n \in lo..hi}

(* ------------------------------------------------------------------ *)
(* The diff engine (internal/difftui).                                 *)
(* ------------------------------------------------------------------ *)

\* diffLine{lineNum, content, isDiff, isAdded}
DiffLine(n, c, d, a) == [lineNum |-> n, content |-> c, isDiff |-> d, isAdded |-> a]

Max(a, b) == IF a > b THEN a ELSE b
Min(a, b) == IF a < b THEN a ELSE b

\* oldLines[i] / newLines[i] of computeDiff's loop body (0-based i = p - 1),
\* the empty string when the side has no such line.
LineAt(ls, p) == IF p <= Len(ls) THEN ls[p] ELSE <<>>

\* A variant of the left result that aligns the old lines with an equal
\* suffix of the new lines (what an edit-distance alignment would do for an
\* insertion at the front) instead of comparing index by index.
computeDiffLeft_SuffixAligned(oldLines, newLines) ==
  LET k == Len(newLines) - Len(oldLines)
  IN  IF k > 0 /\ SubSeq(newLines, k + 1, Len(newLines)) = oldLines
      THEN [p \in 1..Len(newLines) |->
              IF p <= k THEN DiffLine(0, <<>>, FALSE, FALSE)
              ELSE DiffLine(p - k, oldLines[p - k], FALSE, FALSE)]
      ELSE [p \in 1..Max(Len(oldLines), Len(newLines)) |->
              IF p <= Len(oldLines)
              THEN DiffLine(p, oldLines[p], oldLines[p] # LineAt(newLines, p), FALSE)
              ELSE DiffLine(0, <<>>, FALSE, FALSE)]

\* computeDiff, left result: one entry per position 1..maxLen.
computeDiffLeft(oldLines, newLines) ==
  [p \in 1..Max(Len(oldLines), Len(newLines)) |->
     LET oldLine == LineAt(oldLines, p)
         newLine == LineAt(newLines, p)
         isDifferent == oldLine # newLine
     IN  IF p <= Len(oldLines)
         THEN DiffLine(p, oldLine, isDifferent, FALSE)
         ELSE DiffLine(0, <<>>, FALSE, FALSE)]

\* A variant of the right result that marks a line as added only when the
\* old text has no line at that position.
computeDiffRight_AddedOnlyPastEnd(oldLines, newLines) ==
  [p \in 1..Max(Len(oldLines), Len(newLines)) |->
     LET oldLine == LineAt(oldLines, p)
         newLine == LineAt(newLines, p)
         isDifferent == oldLine # newLine
     IN  IF p <= Len(newLines)
         THEN DiffLine(p, newLine, isDifferent /\ p <= Len(oldLines), p > Len(oldLines))
         ELSE DiffLine(0, <<>>, FALSE, FALSE)]

\* A variant of the right result that numbers the lines from 0, as the
\* loop counts them.
computeDiffRight_ZeroBasedNumbers(oldLines, newLines) ==
  [p \in 1..Max(Len(oldLines), Len(newLines)) |->
     LET oldLine == LineAt(oldLines, p)
         newLine == LineAt(newLines, p)
         isDifferent == oldLine # newLine
     IN  IF p <= Len(newLines)
         THEN DiffLine(p - 1, newLine, isDifferent /\ oldLine # <<>>, oldLine = <<>>)
         ELSE DiffLine(0, <<>>, FALSE, FALSE)]

\* computeDiff, right result.
computeDiffRight(oldLines, newLines) ==
  [p \in 1..Max(Len(oldLines), Len(newLines)) |->
     LET oldLine == LineAt(oldLines, p)
         newLine == LineAt(newLines, p)
         isDifferent == oldLine # newLine
     IN  IF p <= Len(newLines)
         THEN DiffLine(p, newLine, isDifferent /\ oldLine # <<>>, oldLine = <<>>)
         ELSE DiffLine(0, <<>>, FALSE, FALSE)]

\* How renderDiffLines presents an entry of the left pane: a placeholder
\* row, the removed marker " - ", or the plain gutter.
LeftClass(d) ==
  IF d.lineNum = 0 THEN "Placeholder"
  ELSE IF d.isDiff THEN "Removed"
  ELSE "Unchanged"

\* How renderDiffLines presents an entry of the right pane: a placeholder
\* row, the added marker " + ", the changed marker " ~ ", or the plain gutter.
RightClass(d) ==
  IF d.lineNum = 0 THEN "Placeholder"
  ELSE IF d.isAdded THEN "Added"
  ELSE IF d.isDiff THEN "Changed"
  ELSE "Unchanged"

(* ------------------------------------------------------------------ *)
(* Line wrapping (internal/difftui wrapLine).                          *)
(* ------------------------------------------------------------------ *)

\* The look-back window of the break-point search.
WrapWindow == 20

\* The result of wrapLine: the segments, or the way the call fails to
\* return: a slice-bounds panic, or a loop that never ends.
WrapOk(segs) == [out |-> "ok", segs |-> segs]
WrapPanic == [out |-> "panic", segs |-> <<>>]
WrapHang == [out |-> "hang", segs |-> <<>>]
\* No call made yet.
WrapNone == [out |-> "none", segs |-> <<>>]

\* A break-point search over the whole width, without the look-back
\* window.
BreakPoint_NoWindow(remaining, width) ==
  LET C == {i \in 1..width :
              /\ i < Len(remaining)
              /\ remaining[i + 1] = SP}
      found == IF C = {} THEN width ELSE CHOOSE i \in C : \A j \in C : j <= i
  IN  IF found >= Len(remaining) THEN width ELSE found

\* The break point of one round of wrapLine's loop: the highest i with
\* width-20 < i <= width, i > 0, i < len(remaining) and remaining[i] a space
\* (0-based), else width.
BreakPoint(remaining, width) ==
  LET C == {i \in 1..width :
              /\ i > width - WrapWindow
              /\ i < Len(remaining)
              /\ remaining[i + 1] = SP}
      found == IF C = {} THEN width ELSE CHOOSE i \in C : \A j \in C : j <= i
  IN  IF found >= Len(remaining) THEN width ELSE found

\* wrapLine's loop, wrapped holding the segments appended so far.
RECURSIVE wrapLoop(_, _, _)
wrapLoop(remaining, width, wrapped) ==
  IF Len(remaining) = 0 THEN WrapOk(wrapped)
  ELSE IF Len(remaining) <= width THEN WrapOk(Append(wrapped, remaining))
  ELSE LET breakPoint == BreakPoint(remaining, width)
       IN  IF breakPoint < 0
           THEN WrapPanic   \* remaining[:breakPoint] with a negative bound
           ELSE LET rest == TrimLeft(SubSeq(remaining, breakPoint + 1, Len(remaining)))
                IN  IF breakPoint = 0 /\ rest = remaining
                    THEN WrapHang   \* the round changes nothing but wrapped
                    ELSE wrapLoop(rest, width,
                                  Append(wrapped, SubSeq(remaining, 1, breakPoint)))

\* wrapLine without its first test: every line goes through the loop.
wrapLine_NoFastPath(line, width) == wrapLoop(line, width, <<>>)

\* wrapLine(line, width)
wrapLine(line, width) ==
  IF Len(line) <= width THEN WrapOk(<<line>>) ELSE wrapLoop(line, width, <<>>)

\* The rows renderDiffLines writes for the entries p..Len(lines): a row is
\* kept as the position of the entry it belongs to. A placeholder entry is
\* one row; another entry is one row per segment of its wrapped content.
RECURSIVE renderRows(_, _, _)
renderRows(lines, width, p) ==
  IF p > Len(lines) THEN WrapOk(<<>>)
  ELSE LET w == IF lines[p].lineNum = 0
                THEN WrapOk(<< <<>> >>)
                ELSE wrapLine(lines[p].content, width)
       IN  IF w.out # "ok" THEN w
           ELSE LET rest == renderRows(lines, width, p + 1)
                IN  IF rest.out # "ok" THEN rest
                    ELSE WrapOk([k \in 1..Len(w.segs) |-> p] \o rest.segs)

\* renderDiffLines(lines, width, isLeft) as the viewport splits it into
\* lines: the rows, or the single empty line of an empty string (row 0).
renderDiffLines(lines, width) ==
  LET r == renderRows(lines, width, 1)
  IN  IF r.out = "ok" /\ r.segs = <<>> THEN WrapOk(<<0>>) ELSE r

(* ------------------------------------------------------------------ *)
(* The viewport of a pane (bubbles/viewport, as used by difftui).      *)
(* ------------------------------------------------------------------ *)

\* viewport.New(width, height)
vpNew(w, h) == [Width |-> w, Height |-> h, YOffset |-> 0, lines |-> <<>>]

vpMaxYOffset(v) == Max(0, Len(v.lines) - v.Height)

\* SetYOffset: the offset clamped to 0..maxYOffset.
vpSetYOffset(v, n) ==
  [v EXCEPT !.YOffset = Max(0, Min(n, vpMaxYOffset(v)))]

\* SetContent: the lines replaced; an offset past the last line goes to
\* the bottom.
vpSetContent(v, rows) ==
  LET v2 == [v EXCEPT !.lines = rows]
  IN  IF v2.YOffset > Len(rows) - 1
      THEN vpSetYOffset(v2, vpMaxYOffset(v2))
      ELSE v2

vpAtTop(v) == v.YOffset <= 0
vpAtBottom(v) == v.YOffset >= vpMaxYOffset(v)

\* viewport.Update(KeyMsg) under the default key map.
vpUpdate(v, key) ==
  IF key \in {"up", "k"}
  THEN IF vpAtTop(v) THEN v ELSE vpSetYOffset(v, v.YOffset - 1)
  ELSE IF key \in {"down", "j"}
  THEN IF vpAtBottom(v) THEN v ELSE vpSetYOffset(v, v.YOffset + 1)
  ELSE IF key = "pgup"
  THEN IF vpAtTop(v) THEN v ELSE vpSetYOffset(v, v.YOffset - v.Height)
  ELSE IF key = "pgdown"
  THEN IF vpAtBottom(v) THEN v ELSE vpSetYOffset(v, v.YOffset + v.Height)
  ELSE v

(* ------------------------------------------------------------------ *)
(* The Key Vault client (pkg/keyvault ListSecretVersions).             *)
(* ------------------------------------------------------------------ *)

\* One element of a page of the versions pager: version is what
\* props.ID.Version() gives, 0 when props.ID is nil or the version is
\* empty; attrs is whether props.Attributes is set; created is
\* Attributes.Created as a day number, 0 when nil; fetchOk is whether
\* GetSecret succeeds for the version and value what it then returns.
Props(version, attrs, created, fetchOk, value) ==
  [version |-> version, attrs |-> attrs, created |-> created,
   fetchOk |-> fetchOk, value |-> value]

\* SecretVersion{Version, Value, CreatedOn}, CreatedOn 0 when nil.
SecretVersion(version, value, created) ==
  [Version |-> version, Value |-> value, CreatedOn |-> created]

\* The text of the error GetSecret returns.
FetchErr == <<"e">>

\* fmt.Sprintf("Error fetching value: %v", err)
FetchErrorValue(err) ==
  <<"E", "r", "r", "o", "r", " ", "f", "e", "t", "c", "h", "i", "n", "g", " ",
    "v", "a", "l", "u", "e", ":", " ">> \o err

\* The outcomes of ListSecretVersions: the list, the pager's error, or the
\* panic of a nil dereference; ListNone before the call.
ListOk(vs) == [out |-> "ok", versions |-> vs]
ListErr == [out |-> "err", versions |-> <<>>]
ListPanic == [out |-> "panic", versions |-> <<>>]
ListNone == [out |-> "none", versions |-> <<>>]

\* The loop over a page from element k on, acc holding the versions
\* appended so far: an element without version is skipped; the others are
\* appended with the fetched value or, when the fetch fails, with the
\* error's message as value; props.Attributes.Created is read without a
\* nil test on props.Attributes.
RECURSIVE collectVersions(_, _, _)
collectVersions(pg, k, acc) ==
  IF k > Len(pg) THEN ListOk(acc)
  ELSE IF pg[k].version = 0 THEN collectVersions(pg, k + 1, acc)
  ELSE IF ~pg[k].attrs THEN ListPanic
  ELSE collectVersions(pg, k + 1,
         Append(acc, SecretVersion(pg[k].version,
                                   IF pg[k].fetchOk THEN pg[k].value
                                   ELSE FetchErrorValue(FetchErr),
                                   pg[k].created)))

\* The less function handed to sort.Slice: an entry without CreatedOn is
\* never less, any entry with one is less than one without, else the later
\* CreatedOn is less.
versionLess(x, y) ==
  IF x.CreatedOn = 0 THEN FALSE
  ELSE IF y.CreatedOn = 0 THEN TRUE
  ELSE x.CreatedOn > y.CreatedOn

\* Longest slice sort.Slice sorts by insertion alone.
InsertionSortMax == 12

\* v put into the sorted vs as insertion sort does: moved towards the
\* front while less than the element before it.
RECURSIVE insertSorted(_, _)
insertSorted(vs, v) ==
  IF vs # <<>> /\ versionLess(v, vs[Len(vs)])
  THEN Append(insertSorted(SubSeq(vs, 1, Len(vs) - 1), v), vs[Len(vs)])
  ELSE Append(vs, v)

RECURSIVE insertionSort(_)
insertionSort(vs) ==
  IF vs = <<>> THEN <<>>
  ELSE insertSorted(insertionSort(SubSeq(vs, 1, Len(vs) - 1)), vs[Len(vs)])

\* vs with the elements at i and j exchanged.
Swapped(vs, i, j) == [vs EXCEPT ![i] = vs[j], ![j] = vs[i]]

\* Whether no element of vs is less than the one before it.
IsSorted(vs) == \A k \in 1..(Len(vs) - 1) : ~versionLess(vs[k + 1], vs[k])

\* The pivot of a slice of 8 to 49 elements: the median of the elements a
\* quarter, a half and three quarters in, found with three comparisons;
\* swaps counts those that found their pair out of order.
choosePivot(vs) ==
  LET q == Len(vs) \div 4
      i == q + 1
      j == 2 * q + 1
      k == 3 * q + 1
      s1 == versionLess(vs[j], vs[i])
      a1 == IF s1 THEN j ELSE i
      b1 == IF s1 THEN i ELSE j
      s2 == versionLess(vs[k], vs[b1])
      b2 == IF s2 THEN k ELSE b1
      s3 == versionLess(vs[b2], vs[a1])
      b3 == IF s3 THEN a1 ELSE b2
  IN  [pivot |-> b3,
       swaps |-> (IF s1 THEN 1 ELSE 0) + (IF s2 THEN 1 ELSE 0) + (IF s3 THEN 1 ELSE 0)]

\* The partition's scans, the pivot being at the front: up from i over the
\* elements less than the pivot, down from j over those not less.
RECURSIVE scanUp(_, _, _)
scanUp(vs, i, j) ==
  IF i <= j /\ versionLess(vs[i], vs[1]) THEN scanUp(vs, i + 1, j) ELSE i

RECURSIVE scanDown(_, _, _)
scanDown(vs, i, j) ==
  IF i <= j /\ ~versionLess(vs[j], vs[1]) THEN scanDown(vs, i, j - 1) ELSE j

\* The partition's loop: the two elements the scans stop at are exchanged
\* until the scans cross, then the pivot is put between the parts.
RECURSIVE partitionLoop(_, _, _)
partitionLoop(vs, i, j) ==
  LET i2 == scanUp(vs, i, j)
      j2 == scanDown(vs, i2, j)
  IN  IF i2 > j2 THEN [mid |-> j2, data |-> Swapped(vs, j2, 1)]
      ELSE partitionLoop(Swapped(vs, i2, j2), i2 + 1, j2 - 1)

\* The partition of vs around the element at pivot: the pivot's final
\* place and the slice with the lesser elements before it.
partition(vs, pivot) == partitionLoop(Swapped(vs, 1, pivot), 2, Len(vs))

\* sort.Slice(versions, less) as Go 1.19 and later sorts: up to 12 elements
\* by insertion; a longer slice is left as it is when the pivot's three
\* comparisons and a scan find it sorted, else it is partitioned around
\* the pivot and both parts are sorted. (A part of more than 12 elements
\* would also bring in the sort's pattern breaking and equal-element
\* partition; a slice of 13, the longest sorted here, has no such part.)
RECURSIVE sortSlice(_)
sortSlice(vs) ==
  IF Len(vs) <= InsertionSortMax THEN insertionSort(vs)
  ELSE IF choosePivot(vs).swaps = 0 /\ IsSorted(vs) THEN vs
  ELSE LET pt == partition(vs, choosePivot(vs).pivot)
       IN  sortSlice(SubSeq(pt.data, 1, pt.mid - 1))
             \o <<pt.data[pt.mid]>>
             \o sortSlice(SubSeq(pt.data, pt.mid + 1, Len(vs)))

\* ListSecretVersions on one page: the versions collected, then sorted.
ListSecretVersions(pg) ==
  LET c == collectVersions(pg, 1, <<>>)
  IN  IF c.out # "ok" THEN c ELSE ListOk(sortSlice(c.versions))

(* ------------------------------------------------------------------ *)
(* State.                                                              *)
(* ------------------------------------------------------------------ *)

VARIABLES
  pc,            \* runEdit's position
  versions,      \* the values of the versions ListSecretVersions returned
  listCalls,     \* calls of client.ListSecretVersions
  setCalls,      \* calls of client.SetSecret
  setArg,        \* the value passed to client.SetSecret
  tempFile,      \* createSecureTempFile returned a path (the defer is set)
  fileExists,    \* the scratch file exists
  fileContent,   \* the scratch file's content
  editorLeft,    \* the scratch file's content when the editor exited
  readDone,      \* os.ReadFile(tempFile) succeeded
  newValueStr,   \* the content read back
  releaseCalls,  \* calls of secureDelete
  releaseErr,    \* the step secureDelete failed at, "none" when it did not
  stderr,        \* what was written to the error stream
  exitCode,      \* the process's exit status, -1 while it runs
  reviewStarted, \* p.Run() was called
  reviewEnded,   \* p.Run() returned a final model
  quitPending,   \* Update returned tea.Quit and its QuitMsg is in flight
  m,             \* the review session's Model
  cmpOld,        \* Model.oldValue: the old text of the comparison
  cmpNew,        \* Model.newValue: the new text of the comparison
  cmpDone,       \* updateViewportContent has compared them
  leftDiff,      \* computeDiff's left result
  rightDiff,     \* computeDiff's right result
  osCalls,       \* the calls runEdit made on the scratch file and the
                 \* random source, in order
  editorStatus,  \* how the editor ended, "none" before it ran
  wLine,         \* wrapLine: the line
  wWidth,        \* wrapLine: the width
  wRes,          \* wrapLine: the result, WrapNone before the call
  acq,           \* concurrent createSecureTempFile calls: each one's state
  afs,           \* the temporary directory they share: path -> content
  b,             \* the browse session's Model
  page,          \* ListSecretVersions: the properties the pager yields
  listed         \* ListSecretVersions: its outcome, ListNone before the call

diffVars == <<cmpOld, cmpNew, cmpDone, leftDiff, rightDiff>>
fileVars == <<tempFile, fileExists, fileContent, editorLeft>>
remoteVars == <<versions, listCalls, setCalls, setArg>>
sessionVars == <<reviewStarted, reviewEnded, quitPending, m>>
flowVars ==
  <<pc, readDone, newValueStr, releaseCalls, releaseErr, stderr, exitCode>>
histVars == <<osCalls, editorStatus>>
wrapVars == <<wLine, wWidth, wRes>>
acqVars == <<acq, afs>>
listVars == <<page, listed>>
pureVars == <<wrapVars, acqVars, b, listVars>>
vars == <<flowVars, remoteVars, fileVars, sessionVars, diffVars, histVars, pureVars>>

\* Model{} as NewModel leaves it: no dimensions, no viewports, no decision.
NewModel ==
  [ready |-> FALSE, width |-> 0, height |-> 0,
   confirmed |-> FALSE, cancelled |-> FALSE,
   leftViewport |-> vpNew(0, 0), rightViewport |-> vpNew(0, 0)]

\* The state of runEdit before its first statement, the review session's
\* Model left aside.
RunIdle ==
  /\ pc = "start"
  /\ versions = <<>>
  /\ listCalls = 0
  /\ setCalls = 0
  /\ setArg = <<>>
  /\ tempFile = FALSE
  /\ fileExists = FALSE
  /\ fileContent = <<>>
  /\ editorLeft = <<>>
  /\ readDone = FALSE
  /\ newValueStr = <<>>
  /\ releaseCalls = 0
  /\ releaseErr = "none"
  /\ stderr = <<>>
  /\ exitCode = -1
  /\ reviewStarted = FALSE
  /\ reviewEnded = FALSE
  /\ quitPending = FALSE
  /\ osCalls = <<>>
  /\ editorStatus = "none"

\* The state of runEdit before its first statement: no review session yet.
FlowIdle ==
  /\ RunIdle
  /\ m = NewModel

\* No comparison made.
DiffIdle ==
  /\ cmpOld = <<>>
  /\ cmpNew = <<>>
  /\ cmpDone = FALSE
  /\ leftDiff = <<>>
  /\ rightDiff = <<>>

\* No wrapLine call made.
WrapIdle ==
  /\ wLine = <<>>
  /\ wWidth = 0
  /\ wRes = WrapNone

\* No concurrent createSecureTempFile calls.
AcqIdle ==
  /\ acq = <<>>
  /\ afs = <<>>

\* No browse session.
BrowseIdle == b = "none"

\* No ListSecretVersions call of its own specification.
ListIdle ==
  /\ page = <<>>
  /\ listed = ListNone

Init ==
  /\ FlowIdle
  /\ DiffIdle
  /\ WrapIdle
  /\ AcqIdle
  /\ BrowseIdle
  /\ ListIdle

(* ------------------------------------------------------------------ *)
(* The edit workflow (pkg/cmd/edit runEdit).                           *)
(* ------------------------------------------------------------------ *)

\* root.ExitWithError: the message on the error stream, then os.Exit(1),
\* which ends the process without running deferred functions.
ExitWithError ==
  /\ pc' = "exited"
  /\ exitCode' = 1
  /\ stderr' = Append(stderr, "Error")

latestVersion == versions[1]

\* Lines 45-57: the client is created and the versions are listed; an
\* error of either, or an empty list, is fatal.
FetchVersions ==
  /\ pc = "start"
  /\ \E res \in {"clientErr", "listErr", "ok"} :
       \/ /\ res = "clientErr"
          /\ ExitWithError
          /\ UNCHANGED <<versions, listCalls>>
       \/ /\ res = "listErr"
          /\ listCalls' = listCalls + 1
          /\ ExitWithError
          /\ UNCHANGED versions
       \/ /\ res = "ok"
          /\ listCalls' = listCalls + 1
          /\ \E vs \in SeqsOf(Values, 0, MaxVersions) :
               /\ versions' = vs
               /\ IF Len(vs) = 0
                  THEN ExitWithError
                  ELSE /\ pc' = "create"
                       /\ UNCHANGED <<exitCode, stderr>>
  /\ UNCHANGED <<setCalls, setArg, fileVars, sessionVars, diffVars,
                 readDone, newValueStr, releaseCalls, releaseErr,
                 histVars, pureVars>>

\* A call on the scratch file or the random source: what it was, the byte
\* count it was made with (0 when it has none), whether it succeeded.
Call(op, n, ok) == [op |-> op, n |-> n, ok |-> ok]

\* The calls createSecureTempFile makes for an outcome: 16 random bytes for
\* the name, the exclusive create, the write of the content, and after a
\* failed write the removal.
AcquireCalls(res, size) ==
  IF res = "randErr" THEN <<Call("rand", 16, FALSE)>>
  ELSE IF res = "openErr"
  THEN <<Call("rand", 16, TRUE), Call("create", 0, FALSE)>>
  ELSE IF res \in {"writeErr", "writeErrKept"}
  THEN <<Call("rand", 16, TRUE), Call("create", 0, TRUE),
         Call("write", size, FALSE), Call("remove", 0, res = "writeErr")>>
  ELSE <<Call("rand", 16, TRUE), Call("create", 0, TRUE), Call("write", size, TRUE)>>

\* Lines 66-75 with createSecureTempFile: the random name, the exclusive
\* create, the write. A failure is fatal; after a failed write the file is
\* removed (the removal's own error is dropped). On success the deferred
\* secureDelete is set.
CreateSecureTempFile ==
  /\ pc = "create"
  /\ \E res \in {"randErr", "openErr", "writeErr", "writeErrKept", "ok"} :
       \/ /\ res \in {"randErr", "openErr", "writeErr"}
          /\ ExitWithError
          /\ UNCHANGED fileVars
       \/ /\ res = "writeErrKept"
          /\ ExitWithError
          /\ fileExists' = TRUE
          /\ \E n \in 0..Max(0, Len(latestVersion) - 1) :
               fileContent' = SubSeq(latestVersion, 1, n)
          /\ UNCHANGED <<tempFile, editorLeft>>
       \/ /\ res = "ok"
          /\ tempFile' = TRUE
          /\ fileExists' = TRUE
          /\ fileContent' = latestVersion
          /\ pc' = "editor"
          /\ UNCHANGED <<editorLeft, exitCode, stderr>>
       /\ osCalls' = osCalls \o AcquireCalls(res, Len(latestVersion))
  /\ UNCHANGED <<remoteVars, sessionVars, diffVars, editorStatus, pureVars,
                 readDone, newValueStr, releaseCalls, releaseErr>>

\* The editor step going on to the read-back after a non-zero exit of the
\* editor.
OpenEditor_IgnoreExitStatus ==
  /\ pc = "editor"
  /\ \E res \in {"startErr", "exitErr", "ok"} :
       /\ \/ /\ res = "startErr"
             /\ UNCHANGED <<fileExists, fileContent>>
          \/ /\ res # "startErr"
             /\ \E kept \in BOOLEAN :
                  /\ fileExists' = kept
                  /\ \E v \in Values : fileContent' = IF kept THEN v ELSE <<>>
       /\ editorLeft' = fileContent'
       /\ editorStatus' = res
       /\ IF res \in {"ok", "exitErr"}
          THEN /\ pc' = "read"
               /\ UNCHANGED <<exitCode, stderr>>
          ELSE ExitWithError
  /\ UNCHANGED <<tempFile, remoteVars, sessionVars, diffVars, osCalls, pureVars,
                 readDone, newValueStr, releaseCalls, releaseErr>>

\* Lines 81-83 with openEditor: the editor runs on the scratch file and may
\* rewrite or delete it; a start failure or a non-zero exit is fatal.
OpenEditor ==
  /\ pc = "editor"
  /\ \E res \in {"startErr", "exitErr", "ok"} :
       /\ \/ /\ res = "startErr"
             /\ UNCHANGED <<fileExists, fileContent>>
          \/ /\ res # "startErr"
             /\ \E kept \in BOOLEAN :
                  /\ fileExists' = kept
                  /\ \E v \in Values : fileContent' = IF kept THEN v ELSE <<>>
       /\ editorLeft' = fileContent'
       /\ editorStatus' = res
       /\ IF res = "ok"
          THEN /\ pc' = "read"
               /\ UNCHANGED <<exitCode, stderr>>
          ELSE ExitWithError
  /\ UNCHANGED <<tempFile, remoteVars, sessionVars, diffVars, osCalls, pureVars,
                 readDone, newValueStr, releaseCalls, releaseErr>>

\* The read-back step without its no-change check: the review session is
\* created whatever the content read.
ReadBack_NoShortCircuit ==
  /\ pc = "read"
  /\ \E ioErr \in BOOLEAN :
       IF ioErr \/ ~fileExists
       THEN /\ ExitWithError
            /\ UNCHANGED <<readDone, newValueStr, sessionVars, diffVars>>
       ELSE /\ readDone' = TRUE
            /\ newValueStr' = fileContent
            /\ pc' = "review"
            /\ reviewStarted' = TRUE
            /\ m' = NewModel
            /\ cmpOld' = latestVersion
            /\ cmpNew' = fileContent
            /\ UNCHANGED <<exitCode, stderr, reviewEnded, quitPending,
                           cmpDone, leftDiff, rightDiff>>
  /\ osCalls' = Append(osCalls, Call("read", 0, pc' # "exited"))
  /\ UNCHANGED <<remoteVars, fileVars, releaseCalls, releaseErr,
                 editorStatus, pureVars>>

\* Lines 86-102: the content is read back (a read failure is fatal); equal
\* content returns at once; otherwise the review session is created.
ReadBack ==
  /\ pc = "read"
  /\ \E ioErr \in BOOLEAN :
       IF ioErr \/ ~fileExists
       THEN /\ ExitWithError
            /\ UNCHANGED <<readDone, newValueStr, sessionVars, diffVars>>
       ELSE /\ readDone' = TRUE
            /\ newValueStr' = fileContent
            /\ IF fileContent = latestVersion
               THEN /\ pc' = "deferred"
                    /\ UNCHANGED <<sessionVars, diffVars>>
               ELSE /\ pc' = "review"
                    /\ reviewStarted' = TRUE
                    /\ m' = NewModel
                    /\ cmpOld' = latestVersion
                    /\ cmpNew' = fileContent
                    /\ UNCHANGED <<reviewEnded, quitPending,
                                   cmpDone, leftDiff, rightDiff>>
            /\ UNCHANGED <<exitCode, stderr>>
  /\ osCalls' = Append(osCalls, Call("read", 0, pc' # "exited"))
  /\ UNCHANGED <<remoteVars, fileVars, releaseCalls, releaseErr,
                 editorStatus, pureVars>>

(* ------------------------------------------------------------------ *)
(* The review session (internal/difftui Model.Update under p.Run()).   *)
(* ------------------------------------------------------------------ *)

headerHeight == 3
footerHeight == 3

CancelKeys == {"esc", "q", "n", "N"}
ConfirmKeys == {"y", "Y", "enter"}
ScrollKeys == {"up", "k", "down", "j", "pgup", "ctrl+b", "pgdown", "ctrl+f"}
\* "x" stands for every key Update has no case for.
Keys == CancelKeys \cup ConfirmKeys \cup ScrollKeys \cup {"x"}

\* Update(tea.KeyMsg): the model returned.
UpdateKey(mm, key) ==
  IF key \in CancelKeys THEN [mm EXCEPT !.cancelled = TRUE]
  ELSE IF key \in ConfirmKeys THEN [mm EXCEPT !.confirmed = TRUE]
  ELSE IF key \in ScrollKeys
  THEN LET lv == vpUpdate(mm.leftViewport, key)
       IN  [mm EXCEPT !.leftViewport = lv,
                      !.rightViewport = vpSetYOffset(mm.rightViewport, lv.YOffset)]
  ELSE mm

\* Update(tea.KeyMsg): whether the command returned is tea.Quit.
UpdateKeyQuits(key) == key \in CancelKeys \cup ConfirmKeys

\* The event loop hands a key press to Update. The QuitMsg of a returned
\* tea.Quit is sent by the command's goroutine, so key presses already
\* queued can reach Update before the loop sees it.
ReviewKey ==
  /\ pc = "review"
  /\ \E key \in Keys :
       /\ m' = UpdateKey(m, key)
       /\ quitPending' = (quitPending \/ UpdateKeyQuits(key))
  /\ UNCHANGED <<flowVars, remoteVars, fileVars, diffVars, histVars, pureVars,
                 reviewStarted, reviewEnded>>

\* The Model as Update(tea.WindowSizeMsg) has it when it calls
\* updateViewportContent: the size taken, the viewports made on the first
\* message and resized on the later ones.
Resized(mm, w, h) ==
  LET viewportWidth == (w \div 2) - 4
      viewportHeight == h - headerHeight - footerHeight
  IN  [mm EXCEPT
         !.width = w, !.height = h, !.ready = TRUE,
         !.leftViewport =
            IF mm.ready
            THEN [mm.leftViewport EXCEPT !.Width = viewportWidth,
                                         !.Height = viewportHeight]
            ELSE vpNew(viewportWidth, viewportHeight),
         !.rightViewport =
            IF mm.ready
            THEN [mm.rightViewport EXCEPT !.Width = viewportWidth,
                                          !.Height = viewportHeight]
            ELSE vpNew(viewportWidth, viewportHeight)]

\* difftui's updateViewportContent on the Model mm with the values old and
\* new: both are split and compared, both sides rendered to the left
\* pane's width less 10 and set as the viewports' content. out tells how
\* the call ends: rendering can panic or spin in wrapLine, and then no
\* content is set.
diffUpdateViewportContent(mm, old, new) ==
  LET maxWidth == mm.leftViewport.Width - 10
      ld == computeDiffLeft(Split(old), Split(new))
      rd == computeDiffRight(Split(old), Split(new))
      oldContent == renderDiffLines(ld, maxWidth)
      newContent == renderDiffLines(rd, maxWidth)
      bad == IF oldContent.out # "ok" THEN oldContent.out ELSE newContent.out
  IN  [out |-> bad, left |-> ld, right |-> rd,
       m |-> IF bad = "ok"
             THEN [mm EXCEPT
                     !.leftViewport = vpSetContent(mm.leftViewport, oldContent.segs),
                     !.rightViewport = vpSetContent(mm.rightViewport, newContent.segs)]
             ELSE mm]

\* Update(tea.WindowSizeMsg) with updateViewportContent: the panes are
\* sized, both values are split and compared, both sides rendered to the
\* pane's wrap width and set as the viewports' content. Rendering can
\* panic or spin in wrapLine; a panic inside Update ends p.Run() either
\* with an error or, where the run loop only recovers, with a nil model
\* whose type assertion panics in runEdit, which runs the deferred cleanup.
ReviewResize ==
  /\ pc = "review"
  /\ \E w \in TermWidths, h \in TermHeights :
       LET u == diffUpdateViewportContent(Resized(m, w, h), cmpOld, cmpNew)
       IN  /\ cmpDone' = TRUE
           /\ leftDiff' = u.left
           /\ rightDiff' = u.right
           /\ \/ /\ u.out = "ok"
                 /\ m' = u.m
                 /\ UNCHANGED <<flowVars, reviewEnded>>
              \/ /\ u.out = "hang"
                 /\ pc' = "hung"
                 /\ UNCHANGED <<m, reviewEnded, readDone, newValueStr,
                                releaseCalls, releaseErr, stderr, exitCode>>
              \/ /\ u.out = "panic"
                 /\ \/ /\ ExitWithError
                       /\ UNCHANGED <<m, reviewEnded>>
                    \/ /\ pc' = "deferred"
                       /\ exitCode' = 2
                       /\ stderr' = Append(stderr, "panic")
                       /\ UNCHANGED <<m, reviewEnded>>
                 /\ UNCHANGED <<readDone, newValueStr, releaseCalls, releaseErr>>
  /\ UNCHANGED <<remoteVars, fileVars, cmpOld, cmpNew, reviewStarted, quitPending,
                 histVars, pureVars>>

\* p.Run() fails (no terminal, input error): lines 105-107.
ReviewFail ==
  /\ pc = "review"
  /\ ExitWithError
  /\ UNCHANGED <<remoteVars, fileVars, sessionVars, diffVars, histVars, pureVars,
                 readDone, newValueStr, releaseCalls, releaseErr>>

\* The end of the review without the Confirmed() check: SetSecret is called
\* whatever the decision.
ReviewQuit_NoConfirmCheck ==
  /\ pc = "review"
  /\ quitPending
  /\ reviewEnded' = TRUE
  /\ quitPending' = FALSE
  /\ setCalls' = setCalls + 1
  /\ setArg' = newValueStr
  /\ \E ok \in BOOLEAN :
       IF ok
       THEN /\ pc' = "deferred"
            /\ UNCHANGED <<exitCode, stderr>>
       ELSE ExitWithError
  /\ UNCHANGED <<versions, listCalls, fileVars, diffVars, m, reviewStarted,
                 readDone, newValueStr, releaseCalls, releaseErr,
                 histVars, pureVars>>

\* The event loop reads the QuitMsg and p.Run() returns the model; lines
\* 109-120: without Confirmed() the changes are discarded, with it
\* SetSecret is called with the content read back, its failure fatal.
ReviewQuit ==
  /\ pc = "review"
  /\ quitPending
  /\ reviewEnded' = TRUE
  /\ quitPending' = FALSE
  /\ IF ~m.confirmed
     THEN /\ pc' = "deferred"
          /\ UNCHANGED <<setCalls, setArg, exitCode, stderr>>
     ELSE /\ setCalls' = setCalls + 1
          /\ setArg' = newValueStr
          /\ \E ok \in BOOLEAN :
               IF ok
               THEN /\ pc' = "deferred"
                    /\ UNCHANGED <<exitCode, stderr>>
               ELSE ExitWithError
  /\ UNCHANGED <<versions, listCalls, fileVars, diffVars, m, reviewStarted,
                 readDone, newValueStr, releaseCalls, releaseErr,
                 histVars, pureVars>>

(* ------------------------------------------------------------------ *)
(* Release (pkg/cmd/edit secureDelete, deferred by runEdit).           *)
(* ------------------------------------------------------------------ *)

\* size bytes of fresh random data.
RandomData(size) == [k \in 1..size |-> "?"]

\* secureDelete's steps in the order it takes them.
secureDeleteSteps == <<"stat", "open", "rand", "write", "sync", "remove">>

\* secureDelete without its final os.Remove: the file is overwritten and
\* synced, and stays.
secureDeleteCalls_NoRemove(failAt, size) ==
  LET steps == SubSeq(secureDeleteSteps, 1, 5)
      last == IF failAt \in {"none", "remove"} THEN 5
              ELSE CHOOSE k \in 1..5 : steps[k] = failAt
  IN  [k \in 1..last |->
         Call(steps[k],
              IF steps[k] \in {"rand", "write"} THEN size ELSE 0,
              steps[k] # failAt)]

\* secureDelete removing the file before it has synced the overwrite.
secureDeleteCalls_RemoveBeforeSync(failAt, size) ==
  LET steps == <<"stat", "open", "rand", "write", "remove", "sync">>
      last == IF failAt = "none" THEN Len(steps)
              ELSE CHOOSE k \in 1..Len(steps) : steps[k] = failAt
  IN  [k \in 1..last |->
         Call(steps[k],
              IF steps[k] \in {"rand", "write"} THEN size ELSE 0,
              steps[k] # failAt)]

\* The calls secureDelete makes when the step failAt fails ("none": no step
\* fails) on a file of size bytes: every step up to the failing one, the
\* random bytes and the write sized by the size stat returned.
secureDeleteCalls(failAt, size) ==
  LET steps == secureDeleteSteps
      last == IF failAt = "none" THEN Len(steps)
              ELSE CHOOSE k \in 1..Len(steps) : steps[k] = failAt
  IN  [k \in 1..last |->
         Call(steps[k],
              IF steps[k] \in {"rand", "write"} THEN size ELSE 0,
              steps[k] # failAt)]

\* The positions of the successful calls op in calls.
SuccessesOf(calls, op) ==
  {k \in 1..Len(calls) : calls[k].op = op /\ calls[k].ok}

\* Whether calls holds a successful call op.
Succeeded(calls, op) == SuccessesOf(calls, op) # {}

\* The deferred step with a failure of secureDelete turned into the exit
\* status 1.
RunDeferred_FatalOnError ==
  /\ pc = "deferred"
  /\ releaseCalls' = releaseCalls + 1
  /\ \E failAt \in {"stat", "open", "rand", "write", "sync", "remove", "none"} :
       LET calls == secureDeleteCalls(failAt, Len(fileContent))
           removed == Succeeded(calls, "remove")
           written == Succeeded(calls, "write")
       IN  /\ ~fileExists => failAt = "stat"
           /\ releaseErr' = failAt
           /\ osCalls' = osCalls \o calls
           /\ fileExists' = (fileExists /\ ~removed)
           /\ IF removed THEN fileContent' = <<>>
              ELSE IF written THEN fileContent' = RandomData(Len(fileContent))
              ELSE IF failAt = "write"
              THEN \E n \in 0..Len(fileContent) :
                     fileContent' =
                       RandomData(n) \o SubSeq(fileContent, n + 1, Len(fileContent))
              ELSE UNCHANGED fileContent
           /\ stderr' = IF failAt = "none" THEN stderr ELSE Append(stderr, "Warning")
  /\ pc' = "done"
  /\ exitCode' = IF releaseErr' # "none" THEN 1
                 ELSE IF exitCode = -1 THEN 0 ELSE exitCode
  /\ UNCHANGED <<remoteVars, tempFile, editorLeft, sessionVars, diffVars,
                 readDone, newValueStr, editorStatus, pureVars>>

\* Lines 70-75 with secureDelete, run as runEdit returns (or unwinds):
\* stat, open for writing, size random bytes, write, sync, close, remove.
\* The first failing step ends it; the failure is printed as a warning.
RunDeferred ==
  /\ pc = "deferred"
  /\ releaseCalls' = releaseCalls + 1
  /\ \E failAt \in {"stat", "open", "rand", "write", "sync", "remove", "none"} :
       LET calls == secureDeleteCalls(failAt, Len(fileContent))
           removed == Succeeded(calls, "remove")
           written == Succeeded(calls, "write")
       IN  /\ ~fileExists => failAt = "stat"
           /\ releaseErr' = failAt
           /\ osCalls' = osCalls \o calls
           /\ fileExists' = (fileExists /\ ~removed)
           /\ IF removed THEN fileContent' = <<>>
              ELSE IF written THEN fileContent' = RandomData(Len(fileContent))
              ELSE IF failAt = "write"
              THEN \E n \in 0..Len(fileContent) :
                     fileContent' =
                       RandomData(n) \o SubSeq(fileContent, n + 1, Len(fileContent))
              ELSE UNCHANGED fileContent
           /\ stderr' = IF failAt = "none" THEN stderr ELSE Append(stderr, "Warning")
  /\ pc' = "done"
  /\ exitCode' = IF exitCode = -1 THEN 0 ELSE exitCode
  /\ UNCHANGED <<remoteVars, tempFile, editorLeft, sessionVars, diffVars,
                 readDone, newValueStr, editorStatus, pureVars>>

Next ==
  \/ FetchVersions
  \/ CreateSecureTempFile
  \/ OpenEditor
  \/ ReadBack
  \/ ReviewKey
  \/ ReviewResize
  \/ ReviewFail
  \/ ReviewQuit
  \/ RunDeferred

Spec == Init /\ [][Next]_vars

(* ------------------------------------------------------------------ *)
(* SpecDiff: Compare as a pure function of two texts.                  *)
(* ------------------------------------------------------------------ *)

\* The input texts: every text of 1..MaxLines lines drawn from Lines.
Texts == {Join(ls) : ls \in SeqsOf(Lines, 1, MaxLines)}

\* The terminal size of the resize event whose updateViewportContent call
\* SpecDiff follows.
DiffTermWidths == {80}
DiffTermHeights == {8}

\* A review session on two texts whose first resize event has sized the
\* panes and is about to call updateViewportContent.
DiffInit ==
  /\ RunIdle
  /\ WrapIdle
  /\ AcqIdle
  /\ BrowseIdle
  /\ ListIdle
  /\ cmpOld \in Texts
  /\ cmpNew \in Texts
  /\ \E w \in DiffTermWidths, h \in DiffTermHeights : m = Resized(NewModel, w, h)
  /\ cmpDone = FALSE
  /\ leftDiff = <<>>
  /\ rightDiff = <<>>

\* updateViewportContent (lines 167-180): split both values, computeDiff,
\* render both sides, set both viewports' content; a render that panics
\* or spins ends the call there with the viewports as they were.
Compare ==
  /\ ~cmpDone
  /\ pc = "start"
  /\ LET u == diffUpdateViewportContent(m, cmpOld, cmpNew)
     IN  IF u.out = "ok"
         THEN /\ cmpDone' = TRUE
              /\ leftDiff' = u.left
              /\ rightDiff' = u.right
              /\ m' = u.m
              /\ UNCHANGED flowVars
         ELSE /\ pc' = (IF u.out = "hang" THEN "hung" ELSE "panicked")
              /\ UNCHANGED <<cmpDone, leftDiff, rightDiff, m, readDone,
                             newValueStr, releaseCalls, releaseErr, stderr,
                             exitCode>>
  /\ UNCHANGED <<cmpOld, cmpNew, remoteVars, fileVars, reviewStarted,
                 reviewEnded, quitPending, histVars, pureVars>>

DiffNext == Compare

SpecDiff == DiffInit /\ [][DiffNext]_vars

(* ------------------------------------------------------------------ *)
(* SpecWrap: wrapLine as a pure function of a line and a width.        *)
(* ------------------------------------------------------------------ *)

WrapLines == SeqsOf(WrapChars, 0, MaxWrapLen)

WrapInit ==
  /\ FlowIdle
  /\ DiffIdle
  /\ AcqIdle
  /\ BrowseIdle
  /\ ListIdle
  /\ \/ wLine \in WrapLines /\ wWidth \in WrapWidths
     \/ wLine \in LongWrapLines /\ wWidth \in LongWrapWidths
  /\ wRes = WrapNone

\* The call wrapLine(line.content, width) of renderDiffLines.
WrapLine ==
  /\ wRes = WrapNone
  /\ wRes' = wrapLine(wLine, wWidth)
  /\ UNCHANGED <<wLine, wWidth, flowVars, remoteVars, fileVars, sessionVars,
                 diffVars, histVars, acqVars, b, listVars>>

WrapNext == WrapLine

SpecWrap == WrapInit /\ [][WrapNext]_vars

(* ------------------------------------------------------------------ *)
(* createSecureTempFile called by two processes at once.               *)
(* ------------------------------------------------------------------ *)

\* The two callers.
AcqProcs == {1, 2}

\* The values the 16 random bytes take, each naming one path of the
\* temporary directory (the hex encoding is one-to-one); two values are
\* enough for the callers to draw the same one or different ones.
AcqNames == {1, 2}

\* The contents the callers write.
AcqContents == {<<"a">>, <<"b", "\n">>}

\* A path of the temporary directory: nothing there, or a file.
NoEntry == [exists |-> FALSE, content |-> <<>>]
Entry(c) == [exists |-> TRUE, content |-> c]

\* A file some other program left in the temporary directory.
ForeignEntry == Entry(<<"x">>)

\* An open with O_CREATE|O_TRUNC in place of O_CREATE|O_EXCL: it succeeds
\* on an existing file and empties it.
OpenExcl_Truncating(fs, name) ==
  [ok |-> TRUE, fs |-> [fs EXCEPT ![name] = Entry(<<>>)]]

\* os.OpenFile(tempPath, O_RDWR|O_CREATE|O_EXCL, 0600) on the directory fs:
\* one atomic test-and-create; it fails when the path exists and leaves the
\* directory as it was, else it creates an empty file.
OpenExcl(fs, name) ==
  IF fs[name].exists
  THEN [ok |-> FALSE, fs |-> fs]
  ELSE [ok |-> TRUE, fs |-> [fs EXCEPT ![name] = Entry(<<>>)]]

\* A caller at a position of createSecureTempFile.
AcqAt(p, pos) == acq[p].pc = pos

AcquireInit ==
  /\ FlowIdle
  /\ DiffIdle
  /\ WrapIdle
  /\ BrowseIdle
  /\ ListIdle
  /\ acq \in [AcqProcs -> {[pc |-> "rand", name |-> 0, content |-> c] :
                             c \in AcqContents}]
  /\ afs \in [AcqNames -> {NoEntry, ForeignEntry}]

\* Lines 137-144: rand.Read and the path made of its bytes.
AcqRand(p) ==
  /\ AcqAt(p, "rand")
  /\ \/ acq' = [acq EXCEPT ![p].pc = "failed"]
     \/ \E n \in AcqNames : acq' = [acq EXCEPT ![p].pc = "open", ![p].name = n]
  /\ UNCHANGED <<afs, flowVars, remoteVars, fileVars, sessionVars, diffVars,
                 histVars, wrapVars, b, listVars>>

\* Lines 147-150: the exclusive create; it can also fail for a reason of
\* its own (permissions, a full directory), changing nothing.
AcqOpen(p) ==
  /\ AcqAt(p, "open")
  /\ \/ /\ acq' = [acq EXCEPT ![p].pc = "failed"]
        /\ UNCHANGED afs
     \/ LET r == OpenExcl(afs, acq[p].name)
        IN  /\ afs' = r.fs
            /\ acq' = [acq EXCEPT ![p].pc = IF r.ok THEN "write" ELSE "failed"]
  /\ UNCHANGED <<flowVars, remoteVars, fileVars, sessionVars, diffVars,
                 histVars, wrapVars, b, listVars>>

\* Lines 153-156: the write of the content; a failed write leaves some
\* prefix of it written.
AcqWrite(p) ==
  /\ AcqAt(p, "write")
  /\ \/ /\ afs' = [afs EXCEPT ![acq[p].name] = Entry(acq[p].content)]
        /\ acq' = [acq EXCEPT ![p].pc = "done"]
     \/ /\ \E k \in 0..(Len(acq[p].content) - 1) :
             afs' = [afs EXCEPT ![acq[p].name] =
                                  Entry(SubSeq(acq[p].content, 1, k))]
        /\ acq' = [acq EXCEPT ![p].pc = "remove"]
  /\ UNCHANGED <<flowVars, remoteVars, fileVars, sessionVars, diffVars,
                 histVars, wrapVars, b, listVars>>

\* Lines 154-155: os.Remove(tempPath) after the failed write, its own error
\* dropped; the call returns the write's error.
AcqRemove(p) ==
  /\ AcqAt(p, "remove")
  /\ \/ afs' = [afs EXCEPT ![acq[p].name] = NoEntry]
     \/ UNCHANGED afs
  /\ acq' = [acq EXCEPT ![p].pc = "failed"]
  /\ UNCHANGED <<flowVars, remoteVars, fileVars, sessionVars, diffVars,
                 histVars, wrapVars, b, listVars>>

AcquireNext ==
  \/ \E p \in AcqProcs : AcqRand(p)
  \/ \E p \in AcqProcs : AcqOpen(p)
  \/ \E p \in AcqProcs : AcqWrite(p)
  \/ \E p \in AcqProcs : AcqRemove(p)

SpecAcquire == AcquireInit /\ [][AcquireNext]_vars

(* ------------------------------------------------------------------ *)
(* The browse session (internal/tui), started by kv show.              *)
(* ------------------------------------------------------------------ *)

\* Most versions the browse session is given.
MaxBrowseVersions == 3

\* The values its versions hold: one line, three lines with an empty one,
\* and a line longer than the least wrap width.
BrowseValues ==
  { <<"a">>,
    <<"a", "\n", "\n", "b">>,
    [k \in 1..21 |-> "a"] }

\* The terminal sizes of its resize events.
BrowseWidths == {20, 80}
BrowseHeights == {6, 7}

\* The keys pressed in it.
BrowseQuitKeys == {"esc", "q", "ctrl+c"}
PrevKeys == {"left", "h"}
NextKeys == {"right", "l"}
BrowseKeys == BrowseQuitKeys \cup PrevKeys \cup NextKeys \cup {"up", "down", "pgdown", "x"}

\* The width wrapTextWithLineNumbers wraps at when given a width <= 0.
FallbackWidth == 40

\* The footer rows of tui's Update.
browseFooterHeight == 3

\* wrapTextWithLineNumbers(text, width) as the viewport splits it into
\* rows, each row tagged with its source line number: one row for an empty
\* line, one per segment of wrapLine otherwise (tui's wrapLine is
\* difftui's, statement for statement).
RECURSIVE wrapRows(_, _, _)
wrapRows(lines, width, n) ==
  IF n > Len(lines) THEN <<>>
  ELSE LET k == IF lines[n] = <<>> THEN 1
                ELSE Len(wrapLine(lines[n], width).segs)
       IN  [r \in 1..k |-> n] \o wrapRows(lines, width, n + 1)

wrapTextWithLineNumbers(text, width) ==
  wrapRows(Split(text), IF width <= 0 THEN FallbackWidth ELSE width, 1)

\* tui.NewModel(versions, secretName), with the last message Update has
\* handled and whether tea.Quit is pending or has ended the session.
BrowseModel(vs) ==
  [versions |-> vs, currentIdx |-> 0, ready |-> FALSE, width |-> 0,
   height |-> 0, viewport |-> vpNew(0, 0),
   quit |-> FALSE, ended |-> FALSE, last |-> "none"]

\* tui's updateViewportContent: the current version's value wrapped at the
\* viewport width less 8, at least 20, then GotoTop.
updateViewportContent(mm) ==
  IF Len(mm.versions) = 0 THEN mm
  ELSE LET maxWidth == Max(20, mm.viewport.Width - 8)
           rows == wrapTextWithLineNumbers(mm.versions[mm.currentIdx + 1], maxWidth)
       IN  [mm EXCEPT !.viewport = vpSetYOffset(vpSetContent(mm.viewport, rows), 0)]

\* A navigation that wraps around at the ends of the list.
NavIndex_Wrapping(idx, n, key) ==
  IF key \in PrevKeys THEN (idx + n - 1) % n
  ELSE IF key \in NextKeys THEN (idx + 1) % n
  ELSE idx

\* The index Update leaves for a key: one less for left/h unless at 0, one
\* more for right/l unless at the last version.
NavIndex(idx, n, key) ==
  IF key \in PrevKeys THEN (IF idx > 0 THEN idx - 1 ELSE idx)
  ELSE IF key \in NextKeys THEN (IF idx < n - 1 THEN idx + 1 ELSE idx)
  ELSE idx

\* runShow starts the session on the versions it fetched, never on none.
BrowseInit ==
  /\ FlowIdle
  /\ DiffIdle
  /\ WrapIdle
  /\ AcqIdle
  /\ ListIdle
  /\ \E vs \in SeqsOf(BrowseValues, 1, MaxBrowseVersions) : b = BrowseModel(vs)

\* Update(tea.KeyMsg): the quit keys return tea.Quit, left/h and right/l
\* move the index and redraw when it moved, every other key goes to the
\* viewport, which sets its default key map on its first Update also when
\* viewport.New has not run.
BrowseKey ==
  /\ b.ended = FALSE
  /\ \E key \in BrowseKeys :
       LET h == [b EXCEPT !.last = key]
           i == NavIndex(b.currentIdx, Len(b.versions), key)
       IN  b' = IF key \in BrowseQuitKeys THEN [h EXCEPT !.quit = TRUE]
                ELSE IF key \in PrevKeys \cup NextKeys
                THEN (IF i # b.currentIdx
                      THEN updateViewportContent([h EXCEPT !.currentIdx = i])
                      ELSE h)
                ELSE [h EXCEPT !.viewport = vpUpdate(b.viewport, key)]
  /\ UNCHANGED <<flowVars, remoteVars, fileVars, sessionVars, diffVars,
                 histVars, wrapVars, acqVars, listVars>>

\* Update(tea.WindowSizeMsg): the viewport made on the first one, resized
\* on the later ones, and redrawn.
BrowseResize ==
  /\ b.ended = FALSE
  /\ \E w \in BrowseWidths, h \in BrowseHeights :
       LET vw == w - 4
           vh == h - browseFooterHeight - 2
           vp == IF ~b.ready THEN vpNew(vw, vh)
                 ELSE [b.viewport EXCEPT !.Width = vw, !.Height = vh]
       IN  b' = updateViewportContent(
                  [b EXCEPT !.width = w, !.height = h, !.ready = TRUE,
                            !.viewport = vp, !.last = "resize"])
  /\ UNCHANGED <<flowVars, remoteVars, fileVars, sessionVars, diffVars,
                 histVars, wrapVars, acqVars, listVars>>

\* The QuitMsg of a pending tea.Quit reaches the program: the session ends.
BrowseQuit ==
  /\ b.ended = FALSE
  /\ b.quit
  /\ b' = [b EXCEPT !.ended = TRUE, !.last = "QuitMsg"]
  /\ UNCHANGED <<flowVars, remoteVars, fileVars, sessionVars, diffVars,
                 histVars, wrapVars, acqVars, listVars>>

BrowseNext ==
  \/ BrowseKey
  \/ BrowseResize
  \/ BrowseQuit

SpecBrowse == BrowseInit /\ [][BrowseNext]_vars

(* ------------------------------------------------------------------ *)
(* SpecList: ListSecretVersions on one page of version properties.     *)
(* ------------------------------------------------------------------ *)

\* Most elements of a page whose elements are of every kind.
MaxListLen == 3

\* The creation days of its elements, 0 for none.
ListCreated == {0, 1, 2}

\* The value GetSecret returns for its versions.
ListValue == <<"a">>

\* The kinds of element: without version (and then skipped, whatever else
\* it holds), or with one and then with or without attributes (with them,
\* a creation day or none), fetched or not.
ListShapes ==
  {sh \in [hasV : BOOLEAN, attrs : BOOLEAN, created : ListCreated, fetchOk : BOOLEAN] :
     /\ sh.attrs \/ sh.created = 0
     /\ sh.hasV \/ (sh.attrs /\ sh.created = 0 /\ sh.fetchOk)}

\* The pages of up to MaxListLen elements of every kind; an element with a
\* version has its position as version.
SmallPages ==
  UNION {{[k \in 1..n |-> Props(IF f[k].hasV THEN k ELSE 0, f[k].attrs,
                                f[k].created, f[k].fetchOk, ListValue)] :
            f \in [1..n -> ListShapes]} : n \in 0..MaxListLen}

\* Pages one element longer than insertion sort takes: every element
\* fetched and created on day 1, but for one or two elements without
\* creation day and for the last, created on day 2.
LongPages ==
  {[k \in 1..(InsertionSortMax + 1) |->
      Props(k, TRUE,
            IF k \in {i, j} THEN 0
            ELSE IF k = InsertionSortMax + 1 THEN 2 ELSE 1,
            TRUE, ListValue)] :
     i, j \in 1..(InsertionSortMax + 1)}

ListInit ==
  /\ FlowIdle
  /\ DiffIdle
  /\ WrapIdle
  /\ AcqIdle
  /\ BrowseIdle
  /\ page \in SmallPages \cup LongPages
  /\ listed = ListNone

\* Lines 45-110: the page is read, its versions are fetched and sorted.
ListVersions ==
  /\ listed = ListNone
  /\ listed' = ListSecretVersions(page)
  /\ UNCHANGED <<page, flowVars, remoteVars, fileVars, sessionVars, diffVars,
                 histVars, wrapVars, acqVars, b>>

\* Lines 51-54: pager.NextPage fails.
ListPageError ==
  /\ listed = ListNone
  /\ listed' = ListErr
  /\ UNCHANGED <<page, flowVars, remoteVars, fileVars, sessionVars, diffVars,
                 histVars, wrapVars, acqVars, b>>

ListNext ==
  \/ ListVersions
  \/ ListPageError

SpecList == ListInit /\ [][ListNext]_vars

(* ------------------------------------------------------------------ *)
(* Properties of the edit workflow, checked under Spec.                *)
(* ------------------------------------------------------------------ *)

\* The process has ended: runEdit returned (or unwound) and its deferred
\* cleanup ran, or os.Exit was called.
Terminated == pc \in {"done", "exited"}

\* C1: once the scratch file has been created, Release runs on every exit
\* path, so in every terminated run the scratch file no longer exists.
C1_ReleasedOnEveryExit ==
  (Terminated /\ tempFile) => (releaseCalls = 1 /\ ~fileExists)

\* C2: SetValue is called only after the review session ended Confirmed,
\* then exactly once and with exactly the bytes read back from the scratch
\* file after the editor exited; neither SetValue nor ListVersions is ever
\* called twice.
C2_SetValueOnceAfterConfirm ==
  /\ setCalls <= 1
  /\ listCalls <= 1
  /\ setCalls = 1 =>
       /\ reviewEnded
       /\ m.confirmed
       /\ readDone
       /\ setArg = newValueStr
       /\ setArg = editorLeft
  /\ (reviewEnded /\ m.confirmed) => setCalls = 1

\* C2 witness: a run that ended after one SetValue call with edited content.
C2_Witness ==
  /\ pc = "done"
  /\ setCalls = 1
  /\ m.confirmed
  /\ setArg # latestVersion

\* C3: when the review session received a cancel input, the session ends
\* Cancelled and SetValue is never called in that run.
C3_CancelNeverCommits ==
  m.cancelled => setCalls = 0

\* C4: the decision is exclusive and terminal: Confirmed() and Cancelled()
\* are never both true, and a session that returned reached one of them.
C4_DecisionExclusive ==
  /\ ~(m.confirmed /\ m.cancelled)
  /\ reviewEnded => (m.confirmed \/ m.cancelled)

\* C5: when the content read back equals the original value, the workflow
\* returns without starting the review session, computing a diff or calling
\* SetValue, and Release still runs on the scratch file (which is gone
\* unless Release itself failed).
C5_NoOpEdit ==
  (readDone /\ newValueStr = latestVersion) =>
    /\ ~reviewStarted
    /\ ~cmpDone
    /\ setCalls = 0
    /\ pc \in {"deferred", "done"}
    /\ pc = "done" =>
         /\ releaseCalls = 1
         /\ exitCode = 0
         /\ releaseErr = "none" => ~fileExists

\* C5 witness: a no-op edit that returned and released the scratch file.
C5_Witness ==
  /\ pc = "done"
  /\ readDone
  /\ newValueStr = latestVersion
  /\ releaseCalls = 1
  /\ ~fileExists

\* The rows a viewport shows: those at offsets YOffset .. YOffset+Height-1
\* of its lines.
Visible(v) ==
  {r \in 1..Len(v.lines) : r > v.YOffset /\ r <= v.YOffset + v.Height}

\* C12: in the review session, after any resize and scroll events, the
\* right pane's vertical offset equals the left pane's and the rows shown
\* side by side belong to the same source line.
C12_PanesInSync ==
  (reviewStarted /\ m.ready) =>
    /\ m.rightViewport.YOffset = m.leftViewport.YOffset
    /\ \A r \in Visible(m.leftViewport) \cap Visible(m.rightViewport) :
         m.leftViewport.lines[r] = m.rightViewport.lines[r]

\* What the step that runs secureDelete does: whether secureDelete fails or
\* not, the commit made (or not made) and the review's decision stay as
\* they are and runEdit returns with the status it would have had (0 on
\* return, the panic's status when unwinding); a failure adds the warning
\* to the error stream.
ReleaseStep ==
  releaseCalls' = releaseCalls + 1 =>
    /\ setCalls' = setCalls
    /\ setArg' = setArg
    /\ m' = m
    /\ pc' = "done"
    /\ exitCode' = (IF exitCode = -1 THEN 0 ELSE exitCode)
    /\ stderr' = IF releaseErr' = "none" THEN stderr
                 ELSE Append(stderr, "Warning")

\* C17: a failure of secureDelete is never fatal and never silent: it is
\* reported as a warning on the error stream and changes neither the commit
\* outcome already determined nor the success status of runEdit.
C17_ReleaseFailureIsWarning == [][ReleaseStep]_vars

\* secureDelete has failed after a confirmed review whose SetSecret call
\* succeeded: the warning is on the error stream and the status is 0.
C17_Witness ==
  /\ pc = "done"
  /\ releaseErr \notin {"none", "stat"}
  /\ m.confirmed
  /\ setCalls = 1
  /\ stderr = <<"Warning">>
  /\ exitCode = 0
  /\ fileExists

\* C16: when the editor cannot be started or exits non-zero, runEdit ends
\* there with an error: the scratch file is not read back, no diff is
\* computed, the review session is not started and SetSecret is not called.
C16_EditorFailureFatal ==
  editorStatus \in {"startErr", "exitErr"} =>
    /\ pc = "exited"
    /\ exitCode = 1
    /\ ~readDone
    /\ \A k \in 1..Len(osCalls) : osCalls[k].op # "read"
    /\ ~cmpDone
    /\ ~reviewStarted
    /\ setCalls = 0

\* The editor rewrote the scratch file and then exited non-zero.
C16_Witness ==
  /\ editorStatus = "exitErr"
  /\ fileExists
  /\ editorLeft # latestVersion
  /\ pc = "exited"

\* C19: a review session that ends confirmed, and so the commit that
\* follows it, comes only from the ready state: the session has handled a
\* resize event and rendered the diff before the confirming key.
C19_ConfirmOnlyWhenReady ==
  (reviewEnded /\ m.confirmed) => (m.ready /\ cmpDone)

\* The calls secureDelete has made: those from its os.Stat on.
ReleaseCallsMade ==
  LET S == {k \in 1..Len(osCalls) : osCalls[k].op = "stat"}
  IN  IF S = {} THEN <<>>
      ELSE SubSeq(osCalls, CHOOSE k \in S : \A j \in S : k <= j, Len(osCalls))

\* C20: secureDelete takes its steps in this order and stops at the first
\* that fails: the size of the file as it is at that time (what the editor
\* left), that many random bytes, one write of exactly that many bytes, the
\* sync, and only then the removal; the file is never removed unless the
\* overwrite and the sync before it succeeded.
C20_OverwriteSyncThenRemove ==
  releaseCalls >= 1 =>
    LET rc == ReleaseCallsMade
    IN  /\ Len(rc) >= 1
        /\ Len(rc) <= Len(secureDeleteSteps)
        /\ \A k \in 1..Len(rc) :
             /\ rc[k].op = secureDeleteSteps[k]
             /\ k < Len(rc) => rc[k].ok
             /\ rc[k].op \in {"rand", "write"} => rc[k].n = Len(editorLeft)
        /\ \A k \in 1..Len(rc) :
             rc[k].op = "remove" =>
               \E i, j \in 1..(k - 1) :
                 /\ i < j
                 /\ rc[i] = Call("write", Len(editorLeft), TRUE)
                 /\ rc[j] = Call("sync", 0, TRUE)
        /\ (fileExists \/ editorLeft = <<>> \/ Succeeded(rc, "remove"))

\* secureDelete has run to its end on a file whose size the editor changed.
C20_Witness ==
  /\ releaseCalls = 1
  /\ Len(editorLeft) # Len(latestVersion)
  /\ Len(editorLeft) > 0
  /\ Len(ReleaseCallsMade) = Len(secureDeleteSteps)
  /\ ~fileExists

\* createSecureTempFile has been called and has returned an error.
AcquireFailed == osCalls # <<>> /\ ~tempFile

\* C21: createSecureTempFile is all-or-nothing: when it fails at any step
\* (the random source, the exclusive create, the write) no scratch file of
\* its own is left on disk and runEdit ends before the editor is run.
C21_AcquireAllOrNothing ==
  AcquireFailed =>
    /\ ~fileExists
    /\ editorStatus = "none"
    /\ pc = "exited"

\* The filesystem entries runEdit's own calls created.
EntriesCreated == Cardinality(SuccessesOf(osCalls, "create"))

\* C13 as stated: once secureDelete has been called on the scratch file,
\* the file no longer exists and runEdit has created no entry but that one.
C13_GoneAfterRelease ==
  releaseCalls >= 1 => (~fileExists /\ EntriesCreated = 1)

\* C13 amended: once secureDelete has been called on the scratch file and
\* has returned without error, the file no longer exists (nothing of it can
\* be read) and runEdit has created no entry but that one.
C13_GoneAfterReleaseOk ==
  (releaseCalls >= 1 /\ releaseErr = "none") =>
    /\ ~fileExists
    /\ fileContent = <<>>
    /\ EntriesCreated = 1

\* secureDelete has returned without error on a file the editor left with
\* content.
C13_Witness ==
  /\ pc = "done"
  /\ releaseCalls = 1
  /\ releaseErr = "none"
  /\ editorLeft # <<>>
  /\ Succeeded(osCalls, "remove")

(* ------------------------------------------------------------------ *)
(* Properties of concurrent createSecureTempFile calls, checked under  *)
(* SpecAcquire.                                                        *)
(* ------------------------------------------------------------------ *)

\* Two callers that have both returned a path hold different paths, and a
\* returned path holds what its caller wrote.
AcqWinnersApart ==
  /\ \A p, q \in AcqProcs :
       (p # q /\ AcqAt(p, "done") /\ AcqAt(q, "done")) => acq[p].name # acq[q].name
  /\ \A p \in AcqProcs :
       AcqAt(p, "done") => afs[acq[p].name] = Entry(acq[p].content)

\* An existing file changes only in a step of the caller that created it
\* and is writing it or removing it after its failed write.
AcqOnlyOwnerWrites ==
  \A n \in AcqNames :
    (afs[n].exists /\ afs'[n] # afs[n]) =>
      \E p \in AcqProcs :
        /\ acq[p].pc \in {"write", "remove"}
        /\ acq[p].name = n
        /\ acq'[p].pc # acq[p].pc

\* C14: of two concurrent createSecureTempFile calls, also when both draw
\* the same name, at most one returns a given path, never both the same one,
\* and the call that finds the path taken fails without overwriting or
\* truncating the file that is there.
C14_ExclusiveAcquire == []AcqWinnersApart /\ [][AcqOnlyOwnerWrites]_vars

\* Both callers drew the same name; one returned the path with its content
\* in place and the other failed at the exclusive create.
C14_Witness ==
  /\ acq[1].name = acq[2].name
  /\ acq[1].name # 0
  /\ AcqAt(1, "done")
  /\ AcqAt(2, "failed")
  /\ afs[acq[1].name] = Entry(acq[1].content)
  /\ acq[1].content # acq[2].content

(* ------------------------------------------------------------------ *)
(* Properties of the diff engine, checked under SpecDiff.              *)
(* ------------------------------------------------------------------ *)

\* A text that is one non-empty line followed by a newline.
IsOneLineNL(t) ==
  /\ Len(t) >= 2
  /\ t[Len(t)] = NL
  /\ \A k \in 1..(Len(t) - 1) : t[k] # NL

\* C6: comparing a text with itself yields two sequences of equal length,
\* every entry on both sides presented as unchanged, numbered 1..len.
C6_FullMatchAllUnchanged ==
  (cmpDone /\ cmpOld = cmpNew) =>
    /\ Len(leftDiff) = Len(rightDiff)
    /\ \A p \in DOMAIN leftDiff :
         /\ LeftClass(leftDiff[p]) = "Unchanged"
         /\ leftDiff[p].lineNum = p
    /\ \A p \in DOMAIN rightDiff :
         /\ RightClass(rightDiff[p]) = "Unchanged"
         /\ rightDiff[p].lineNum = p

\* C7: two differing non-empty single-line values, each ending in a newline,
\* yield exactly one entry per side: left {1, old line, Removed}, right
\* {1, new line, Changed}.
C7_OneEntryPerSide ==
  (cmpDone /\ IsOneLineNL(cmpOld) /\ IsOneLineNL(cmpNew) /\ cmpOld # cmpNew) =>
    /\ Len(leftDiff) = 1
    /\ Len(rightDiff) = 1
    /\ leftDiff[1].lineNum = 1
    /\ leftDiff[1].content = SubSeq(cmpOld, 1, Len(cmpOld) - 1)
    /\ LeftClass(leftDiff[1]) = "Removed"
    /\ rightDiff[1].lineNum = 1
    /\ rightDiff[1].content = SubSeq(cmpNew, 1, Len(cmpNew) - 1)
    /\ RightClass(rightDiff[1]) = "Changed"

\* C8: past the shorter text's last line the shorter side holds placeholders
\* and the longer side is Removed (old longer) or Added (new longer),
\* whatever the line holds.
C8_PastShorterSide ==
  cmpDone =>
    LET o == Split(cmpOld)
        n == Split(cmpNew)
    IN  \A p \in (Min(Len(o), Len(n)) + 1)..Max(Len(o), Len(n)) :
          IF Len(o) > Len(n)
          THEN /\ RightClass(rightDiff[p]) = "Placeholder"
               /\ rightDiff[p].content = <<>>
               /\ LeftClass(leftDiff[p]) = "Removed"
          ELSE /\ LeftClass(leftDiff[p]) = "Placeholder"
               /\ leftDiff[p].content = <<>>
               /\ RightClass(rightDiff[p]) = "Added"

\* C9: where both texts have a line and the lines differ, the left entry is
\* Removed and the right entry is Changed for a non-empty old line, Added
\* for an empty old line.
C9_DifferingLines ==
  cmpDone =>
    LET o == Split(cmpOld)
        n == Split(cmpNew)
    IN  \A p \in 1..Min(Len(o), Len(n)) :
          o[p] # n[p] =>
            /\ LeftClass(leftDiff[p]) = "Removed"
            /\ RightClass(rightDiff[p]) = IF o[p] # <<>> THEN "Changed" ELSE "Added"

\* C9 witness: a comparison with a differing non-empty old line at one
\* position and a differing empty old line at another.
C9_Witness ==
  /\ cmpDone
  /\ LET o == Split(cmpOld)
         n == Split(cmpNew)
     IN  /\ \E p \in 1..Min(Len(o), Len(n)) : o[p] # n[p] /\ o[p] # <<>>
         /\ \E p \in 1..Min(Len(o), Len(n)) : o[p] # n[p] /\ o[p] = <<>>

\* The one-position inputs made of position p of (ls): the line alone when
\* the side has a line there, no line otherwise.
OnlyAt(ls, p) == IF p <= Len(ls) THEN <<ls[p]>> ELSE <<>>

\* C10: the comparison is positional: the presentation of position p is the
\* one obtained by comparing position p alone, and for ["a","b"] against
\* ["x","a","b"] the first position is Removed on the left and Changed on the
\* right.
C10_Positional ==
  cmpDone =>
    LET o == Split(cmpOld)
        n == Split(cmpNew)
    IN  /\ \A p \in 1..Max(Len(o), Len(n)) :
             /\ LeftClass(leftDiff[p]) =
                  LeftClass(computeDiffLeft(OnlyAt(o, p), OnlyAt(n, p))[1])
             /\ RightClass(rightDiff[p]) =
                  RightClass(computeDiffRight(OnlyAt(o, p), OnlyAt(n, p))[1])
        /\ (o = << <<"a">>, <<"b">> >> /\ n = << <<"x">>, <<"a">>, <<"b">> >>) =>
             /\ LeftClass(leftDiff[1]) = "Removed"
             /\ RightClass(rightDiff[1]) = "Changed"

\* C10 witness: the shifted inputs ["a","b"] and ["x","a","b"] compared.
C10_Witness ==
  /\ cmpDone
  /\ Split(cmpOld) = << <<"a">>, <<"b">> >>
  /\ Split(cmpNew) = << <<"x">>, <<"a">>, <<"b">> >>
  /\ Len(leftDiff) = 3

\* C23: computeDiff returns two sequences of the same length, the greater
\* of the two line counts; at every position at least one side holds a real
\* line; a real line at 0-based position i carries the number i+1 and its
\* side's line; an entry is a placeholder (number 0) exactly when its side
\* has no line at that position.
C23_AlignedByPosition ==
  cmpDone =>
    LET oldLines == Split(cmpOld)
        newLines == Split(cmpNew)
    IN  /\ Len(leftDiff) = Max(Len(oldLines), Len(newLines))
        /\ Len(rightDiff) = Len(leftDiff)
        /\ \A p \in 1..Len(leftDiff) :
             /\ leftDiff[p].lineNum # 0 \/ rightDiff[p].lineNum # 0
             /\ leftDiff[p].lineNum = (IF p <= Len(oldLines) THEN p ELSE 0)
             /\ rightDiff[p].lineNum = (IF p <= Len(newLines) THEN p ELSE 0)
             /\ p <= Len(oldLines) => leftDiff[p].content = oldLines[p]
             /\ p <= Len(newLines) => rightDiff[p].content = newLines[p]

\* Texts of one and of three lines have been compared, either way round:
\* the shorter side ends in two placeholders.
C23_Witness ==
  /\ cmpDone
  /\ Len(leftDiff) = 3
  /\ \/ Len(Split(cmpOld)) = 1 /\ leftDiff[3].lineNum = 0 /\ rightDiff[3].lineNum = 3
     \/ Len(Split(cmpNew)) = 1 /\ rightDiff[3].lineNum = 0 /\ leftDiff[3].lineNum = 3

(* ------------------------------------------------------------------ *)
(* Properties of line wrapping, checked under SpecWrap.                *)
(* ------------------------------------------------------------------ *)


\* C11: wrapping never fails and always terminates: for every line and
\* every width, also a width of zero or less, the call returns segments,
\* those of the fallback width 40 when the width is zero or less.
C11_WrapNeverFails ==
  wRes.out # "none" =>
    /\ wRes.out = "ok"
    /\ wWidth <= 0 => wRes = wrapLine(wLine, FallbackWidth)

\* C18: a line no longer than the width comes back as exactly one segment,
\* the line itself.
C18_WrapRoundTrip ==
  (wRes.out # "none" /\ Len(wLine) <= wWidth) => wRes = WrapOk(<<wLine>>)

\* C18 witness: a wrapped line, at most width long, with spaces and letters.
C18_Witness ==
  /\ wRes.out # "none"
  /\ Len(wLine) <= wWidth
  /\ \E k \in 1..Len(wLine) : wLine[k] = SP
  /\ \E k \in 1..Len(wLine) : wLine[k] # SP
  /\ wRes.out = "ok"
  /\ Len(wRes.segs) = 1

\* s without its spaces.
RECURSIVE NonSpaces(_)
NonSpaces(s) ==
  IF s = <<>> THEN <<>>
  ELSE IF s[1] = SP THEN NonSpaces(Tail(s))
  ELSE <<s[1]>> \o NonSpaces(Tail(s))

\* The segments one after the other.
RECURSIVE Concat(_)
Concat(segs) == IF segs = <<>> THEN <<>> ELSE segs[1] \o Concat(Tail(segs))

\* Where the rule puts the end of a segment cut from rem, longer than
\* width: the highest index p (0-based) with width-20 < p <= width, p >= 1,
\* at which rem has a space, or width when there is none.
RuleBreak(rem, width) ==
  LET P == {q \in 1..width : q > width - 20 /\ rem[q + 1] = SP}
  IN  IF P = {} THEN width ELSE CHOOSE q \in P : \A r \in P : r <= q

\* segs cut rem by the rule: a rest of at most width characters is the last
\* segment, a longer one gives the segment before its break and goes on
\* with the rest less its leading spaces.
RECURSIVE FollowsRule(_, _, _)
FollowsRule(rem, segs, width) ==
  IF rem = <<>> THEN segs = <<>>
  ELSE IF Len(rem) <= width THEN segs = <<rem>>
  ELSE /\ segs # <<>>
       /\ segs[1] = SubSeq(rem, 1, RuleBreak(rem, width))
       /\ FollowsRule(TrimLeft(SubSeq(rem, RuleBreak(rem, width) + 1, Len(rem))),
                      Tail(segs), width)

\* C22: for a width > 0 and a line longer than it, wrapLine ends every
\* non-final segment at the highest index p with width-20 < p <= width,
\* p >= 1, holding a space in the remaining text, or at width when there is
\* none, and drops the leading spaces of what follows; so every segment has
\* at most width characters and the segments hold, in order, every
\* character of the line but spaces.
C22_BreakPointRule ==
  (wRes.out # "none" /\ wWidth > 0 /\ Len(wLine) > wWidth) =>
    /\ wRes.out = "ok"
    /\ FollowsRule(wLine, wRes.segs, wWidth)
    /\ \A k \in 1..Len(wRes.segs) : Len(wRes.segs[k]) <= wWidth
    /\ NonSpaces(Concat(wRes.segs)) = NonSpaces(wLine)
    /\ Len(Concat(wRes.segs)) <= Len(wLine)

\* A line longer than a width over 20 whose only spaces lie before the
\* look-back window: it has been cut at the width.
C22_Witness ==
  /\ wRes.out = "ok"
  /\ wWidth > 20
  /\ Len(wLine) > wWidth
  /\ \E k \in 1..(wWidth - 20) : wLine[k + 1] = SP
  /\ Len(wRes.segs) = 2
  /\ Len(wRes.segs[1]) = wWidth

(* ------------------------------------------------------------------ *)
(* Properties of the browse session, checked under SpecBrowse.         *)
(* ------------------------------------------------------------------ *)

\* The cursor is an index of the version list.
CursorInRange ==
  b.currentIdx >= 0 /\ b.currentIdx < Len(b.versions)

\* What a step handling left/h or right/l does to the cursor: nothing at
\* the end it points to, else one step.
CursorStep ==
  /\ b'.last \in PrevKeys =>
       b'.currentIdx = IF b.currentIdx = 0 THEN 0 ELSE b.currentIdx - 1
  /\ b'.last \in NextKeys =>
       b'.currentIdx = IF b.currentIdx = Len(b.versions) - 1
                       THEN b.currentIdx ELSE b.currentIdx + 1

\* C15: in a browse session on a non-empty version list the cursor always
\* stays within 0..versionCount-1; left at index 0 and right at the last
\* index leave it unchanged; every other left or right moves it by
\* exactly one.
C15_CursorBounded == []CursorInRange /\ [][CursorStep]_vars

\* The cursor has been moved to the last of several versions and right has
\* been pressed there.
C15_Witness ==
  /\ Len(b.versions) >= 2
  /\ b.currentIdx = Len(b.versions) - 1
  /\ b.last \in NextKeys
  /\ b.ready
  /\ b.viewport.YOffset > 0

(* ------------------------------------------------------------------ *)
(* Properties of ListSecretVersions, checked under SpecList.           *)
(* ------------------------------------------------------------------ *)

\* C24: the list ListSecretVersions returns has the later CreatedOn first,
\* every entry without CreatedOn after every entry with one, and the
\* entries without CreatedOn in the order the pager gave them (versions are
\* numbered in that order); so the entry at index 0 is a newest one.
C24_NewestFirstStable ==
  listed.out = "ok" =>
    LET vs == listed.versions
    IN  \A i, j \in 1..Len(vs) :
          i < j =>
            /\ vs[j].CreatedOn # 0 =>
                 (vs[i].CreatedOn # 0 /\ vs[i].CreatedOn >= vs[j].CreatedOn)
            /\ (vs[i].CreatedOn = 0 /\ vs[j].CreatedOn = 0) =>
                 vs[i].Version < vs[j].Version

\* C25: when GetSecret fails for a version, ListSecretVersions does not
\* fail (here: on a page whose elements all carry attributes) and returns
\* that version with an empty Value; so the first entry, which runEdit
\* writes to the scratch file as the original, is never made of an error's
\* message.
C25_FetchErrorLeavesNoValue ==
  /\ (listed.out \notin {"none", "err"} /\ \A k \in 1..Len(page) : page[k].attrs) =>
       listed.out = "ok"
  /\ listed.out = "ok" =>
       \A k \in 1..Len(page) :
         (page[k].version # 0 /\ ~page[k].fetchOk) =>
           \E i \in 1..Len(listed.versions) :
             /\ listed.versions[i].Version = page[k].version
             /\ listed.versions[i].Value = <<>>

====
